---- MODULE Spec2Model ----
(***************************************************************************)
(* Model of the interview-practice chat front end.                         *)
(*                                                                         *)
(*   RecordingModal (src/unnamed/part_000): the recording widget, its      *)
(*   React state, its three refs, the browser resources behind the refs    *)
(*   (device streams, recorders, transcription sockets) and its event      *)
(*   handlers.  Specification Spec.                                        *)
(*                                                                         *)
(*   Home / ChatInput (src/src/pages/index.tsx): the chat shell, its       *)
(*   message list, the input gate and the send handler.  Specification     *)
(*   ChatSpec.                                                             *)
(*                                                                         *)
(*   Recorder / RecordingSheet (src/src/pages/index.tsx): the recording    *)
(*   widget the page mounts, which keeps its socket, recorder and stream   *)
(*   in local variables of the component function.  Specifications         *)
(*   SheetSpec and SheetLiveSpec.                                          *)
(*                                                                         *)
(* Text is a sequence of atoms: an atom is either the single space " " or  *)
(* a non-empty word without spaces; the string it stands for is the        *)
(* concatenation of its atoms.                                             *)
(*                                                                         *)
(* React commits a state update made in a click or input handler before    *)
(* the next event is handled; an update made in a socket callback or after *)
(* an await is rendered later, by the scheduler.  Handlers attached to     *)
(* buttons are closures of the last render, so the model keeps both the    *)
(* committed state and what the last render has seen of it.                *)
(***************************************************************************)
EXTENDS Integers, Sequences, FiniteSets, TLC

(* ----------------------------- bounds ---------------------------------- *)

MaxAttempts == 2      \* Record / Record Again clicks per widget instance
MaxHistory == 2       \* final transcript events kept per attempt
MaxMessages == 2      \* chat messages kept in the list
MaxRequests == 2      \* input_request frames received
MaxSent == 2          \* outbound chat frames
MaxOpens == 2         \* times the Recorder button opens the sheet

(* ------------------------------ text ----------------------------------- *)

Space == " "

RECURSIVE Join(_, _)
\* Array.prototype.join: the elements separated by sep.
Join(parts, sep) ==
  IF Len(parts) = 0 THEN << >>
  ELSE IF Len(parts) = 1 THEN parts[1]
  ELSE parts[1] \o sep \o Join(Tail(parts), sep)

RECURSIVE SplitFrom(_, _, _)
\* String.prototype.split(" "): cur is the token being read.
SplitFrom(s, i, cur) ==
  IF i > Len(s) THEN << cur >>
  ELSE IF s[i] = Space THEN << cur >> \o SplitFrom(s, i + 1, << >>)
  ELSE SplitFrom(s, i + 1, Append(cur, s[i]))

Split(s) == SplitFrom(s, 1, << >>)

RECURSIVE TrimStart(_)
TrimStart(s) ==
  IF Len(s) > 0 /\ Head(s) = Space THEN TrimStart(Tail(s)) ELSE s

RECURSIVE TrimEnd(_)
TrimEnd(s) ==
  IF Len(s) > 0 /\ s[Len(s)] = Space
  THEN TrimEnd(SubSeq(s, 1, Len(s) - 1)) ELSE s

\* String.prototype.trim
Trim(s) == TrimEnd(TrimStart(s))

(* ---------------------- RecordingModal: data --------------------------- *)

RecodingState ==
  { "NOT_STARTED", "WAITING_FOR_PERMISSION", "PERMISSION_DENIED", "RECORDING",
    "PROCESSING", "COMPLETED", "USE_TEXT_ALTERNATIVE", "ERROR" }

Undefined == 0 - 1

Response(transcript, isFinal, speechClarity, averageSpeedWPM) ==
  [ transcript |-> transcript, isFinal |-> isFinal,
    speechClarity |-> speechClarity, averageSpeedWPM |-> averageSpeedWPM ]

\* The transcript events the transcription backend sends.  speechClarity is
\* in hundredths (90 is 0.9); a missing optional field is Undefined.
TranscriptResponse ==
  { Response(<< "hi" >>, FALSE, Undefined, Undefined),
    Response(<< "yo" >>, FALSE, Undefined, Undefined),
    Response(<< "hi" >>, TRUE, 90, Undefined),
    Response(<< "yo" >>, TRUE, Undefined, 130) }

\* What the user may type into the editable buffer.
EditedText == { << >>, << "ok" >> }

\* A ref holds 0 (null) or the number of the attempt that created the object.
NullRef == 0

\* onSheetClosed has not been called / was called with this payload.
NotClosed == [ called |-> FALSE, isNull |-> FALSE, text |-> << >> ]
ClosedWith(isNull, text) == [ called |-> TRUE, isNull |-> isNull, text |-> text ]

VARIABLES
  sheetOpen,           \* the parent renders the widget
  recordingState,      \* useState: recordingState
  currentTranscript,   \* useState: << >> (null) or << event >>
  transcriptHistory,   \* useState: sequence of final events
  finalTranscript,     \* useState: the editable buffer
  shownState,          \* recordingState as of the last render
  shownText,           \* transcribeText as of the last render
  socketRef,           \* useRef
  mediaRecorderRef,    \* useRef
  mediaStreamRef,      \* useRef
  liveStreams,         \* device streams with a live track
  activeRecorders,     \* recorders that are recording
  openSockets,         \* connected transcription sockets
  acquiring,           \* the attempt whose getUserMedia is pending, or 0
  attempts,            \* startRecording calls so far
  closeResult,         \* the call of onSheetClosed, if any
  stateTrace,          \* every value recordingState has been set to, in order
  finalChunkDue,       \* stopped recorders whose last dataavailable is queued
  lastOp               \* the handler that ran last (and what it did with
                       \* the chunk, for a dataavailable listener)

VARIABLES
  inputActive,         \* Home useState: inputActive
  messages,            \* Home useState: messages
  inputValue,          \* ChatInput useState: inputValue
  shownInputActive,    \* inputActive as of the last render
  shownMessages,       \* messages as of the last render
  sent,                \* frames passed to sendMessage, in order
  nRequests,           \* input_request frames received
  requestSinceSend,    \* an input_request was received after the last send
  lastError,           \* the error the last chat handler threw, or ""
  chatOp               \* the chat handler that ran last

modalVars ==
  << sheetOpen, recordingState, currentTranscript, transcriptHistory,
     finalTranscript, shownState, shownText, socketRef, mediaRecorderRef,
     mediaStreamRef, liveStreams, activeRecorders, openSockets, acquiring,
     attempts, closeResult, stateTrace, finalChunkDue, lastOp >>

chatVars ==
  << inputActive, messages, inputValue, shownInputActive, shownMessages,
     sent, nRequests, requestSinceSend, lastError, chatOp >>

VARIABLES
  recorderSheetOpen,       \* Recorder useState: sheetOpen
  sheetInstance,           \* the RecordingSheet instances mounted so far
  sheetRecordingState,     \* RecordingSheet useState: recordingState
  sheetCurrentTranscript,  \* RecordingSheet useState: << >> or << event >>
  sheetTranscriptHistory,  \* RecordingSheet useState: transcriptHistory
  sheetShownState,         \* recordingState as of the last render
  sheetShownTranscript,    \* currentTranscript as of the last render
  socket,                  \* `let socket` of the last render
  mediaRecorder,           \* `let mediaRecorder` of the last render
  mediaStream,             \* `let mediaStream` of the last render
  sheetLiveStreams,        \* device streams with a live track
  sheetActiveRecorders,    \* recorders that are recording
  sheetOpenSockets,        \* connected transcription sockets
  sheetAcquiring,          \* the attempts whose getUserMedia is pending
  sheetOwner,              \* sheetOwner[n]: the instance that made attempt n
  stopWaiting,             \* << >>, or << currentTranscript >> as seen by the
                           \* stopRecording call that is in its wait loop
  sheetOp                  \* the RecordingSheet handler that ran last

sheetVars ==
  << recorderSheetOpen, sheetInstance, sheetRecordingState,
     sheetCurrentTranscript, sheetTranscriptHistory, sheetShownState,
     sheetShownTranscript, socket, mediaRecorder, mediaStream,
     sheetLiveStreams, sheetActiveRecorders, sheetOpenSockets, sheetAcquiring,
     sheetOwner, stopWaiting, sheetOp >>

vars == << modalVars, chatVars, sheetVars >>

\* transcribeText with the ". " separator of the earlier draft.
TranscribeTextDotSeparator(history, current) ==
  LET historyText == Join([ i \in 1 .. Len(history) |-> history[i].transcript ],
                          << ".", Space >>)
  IN historyText \o (IF current = << >> THEN << >> ELSE current[1].transcript)

\* useMemo transcribeText
TranscribeText(history, current) ==
  LET historyText == Join([ i \in 1 .. Len(history) |-> history[i].transcript ],
                          << Space >>)
  IN historyText \o (IF current = << >> THEN << >> ELSE current[1].transcript)

\* .filter((value) => value !== undefined)
FilterDefined(values) == SelectSeq(values, LAMBDA value : value # Undefined)

RECURSIVE Reduce(_)
\* .reduce((a, b) => a + b, 0)
Reduce(values) ==
  IF Len(values) = 0 THEN 0 ELSE Head(values) + Reduce(Tail(values))

\* Math.round of the quotient num / den (den > 0): the nearest integer, a
\* half rounded up.  The quotient is exact here, not a double.
MathRound(num, den) == (2 * num + den) \div (2 * den)

\* clarityScores with a missing speechClarity counted as 0.
ClarityScoresMissingAsZero(history) ==
  << 50 >> \o [ i \in 1 .. Len(history) |->
                  IF history[i].speechClarity = Undefined THEN 0
                  ELSE history[i].speechClarity ]

\* clarityScores, in hundredths: [0.5, ...the defined speechClarity values]
ClarityScores(history) ==
  << 50 >> \o FilterDefined([ i \in 1 .. Len(history) |-> history[i].speechClarity ])

\* averageClarity: Math.round(totalClarity / clarityScores.length * 100)
AverageClarity(history) ==
  MathRound(Reduce(ClarityScores(history)), Len(ClarityScores(history)))

AVERAGE_WPM_SPEAKING == 150

\* speeds: [150, ...the defined averageSpeedWPM values]
Speeds(history) ==
  << AVERAGE_WPM_SPEAKING >> \o
    FilterDefined([ i \in 1 .. Len(history) |-> history[i].averageSpeedWPM ])

\* averageSpeedWPM: Math.round(totalSpeed / speeds.length)
AverageSpeedWPM(history) ==
  MathRound(Reduce(Speeds(history)), Len(Speeds(history)))

ModalInit ==
  /\ sheetOpen = TRUE
  /\ recordingState = "NOT_STARTED"
  /\ currentTranscript = << >>
  /\ transcriptHistory = << >>
  /\ finalTranscript = << >>
  /\ shownState = "NOT_STARTED"
  /\ shownText = << >>
  /\ socketRef = NullRef
  /\ mediaRecorderRef = NullRef
  /\ mediaStreamRef = NullRef
  /\ liveStreams = {}
  /\ activeRecorders = {}
  /\ openSockets = {}
  /\ acquiring = 0
  /\ attempts = 0
  /\ closeResult = NotClosed
  /\ stateTrace = << "NOT_STARTED" >>
  /\ finalChunkDue = {}
  /\ lastOp = "mount"

ChatInit ==
  /\ inputActive = FALSE
  /\ messages = << >>
  /\ inputValue = << >>
  /\ shownInputActive = FALSE
  /\ shownMessages = << >>
  /\ sent = << >>
  /\ nRequests = 0
  /\ requestSinceSend = FALSE
  /\ lastError = ""
  /\ chatOp = "mount"

\* Recorder starts with the sheet closed; no RecordingSheet is mounted.
SheetInit ==
  /\ recorderSheetOpen = FALSE
  /\ sheetInstance = 0
  /\ sheetRecordingState = "NOT_STARTED"
  /\ sheetCurrentTranscript = << >>
  /\ sheetTranscriptHistory = << >>
  /\ sheetShownState = "NOT_STARTED"
  /\ sheetShownTranscript = << >>
  /\ socket = NullRef
  /\ mediaRecorder = NullRef
  /\ mediaStream = NullRef
  /\ sheetLiveStreams = {}
  /\ sheetActiveRecorders = {}
  /\ sheetOpenSockets = {}
  /\ sheetAcquiring = {}
  /\ sheetOwner = << >>
  /\ stopWaiting = << >>
  /\ sheetOp = "mount"

Init == ModalInit /\ ChatInit /\ SheetInit

(* -------------------- RecordingModal: handlers ------------------------- *)

\* setRecordingState called with each value of states in turn by a handler of
\* a mounted widget; the handler's updates are committed together.
SetRecordingState(states) ==
  /\ recordingState' = states[Len(states)]
  /\ stateTrace' = stateTrace \o states

\* A render that sees all committed state.
Flush ==
  /\ shownState' = recordingState'
  /\ shownText' = TranscribeText(transcriptHistory', currentTranscript')

\* The Record and Record Again buttons.
RecordButtonShown == shownState \in { "NOT_STARTED", "COMPLETED" }

\* startRecording that leaves the history of the earlier attempt in place.
StartRecordingKeepsHistory ==
  /\ sheetOpen
  /\ RecordButtonShown
  /\ attempts < MaxAttempts
  /\ currentTranscript' = << >>
  /\ UNCHANGED transcriptHistory
  /\ SetRecordingState(<< "WAITING_FOR_PERMISSION" >>)
  /\ attempts' = attempts + 1
  /\ acquiring' = attempts + 1
  /\ Flush
  /\ lastOp' = "startRecording"
  /\ UNCHANGED << sheetOpen, finalTranscript, socketRef, mediaRecorderRef,
                  mediaStreamRef, liveStreams, activeRecorders, openSockets,
                  closeResult >>
  /\ UNCHANGED << chatVars, sheetVars >>
  /\ UNCHANGED finalChunkDue

\* startRecording up to its await.
StartRecording ==
  /\ sheetOpen
  /\ RecordButtonShown
  /\ attempts < MaxAttempts
  /\ currentTranscript' = << >>
  /\ transcriptHistory' = << >>
  /\ SetRecordingState(<< "WAITING_FOR_PERMISSION" >>)
  /\ attempts' = attempts + 1
  /\ acquiring' = attempts + 1
  /\ Flush
  /\ lastOp' = "startRecording"
  /\ UNCHANGED << sheetOpen, finalTranscript, socketRef, mediaRecorderRef,
                  mediaStreamRef, liveStreams, activeRecorders, openSockets,
                  closeResult >>
  /\ UNCHANGED << chatVars, sheetVars >>
  /\ UNCHANGED finalChunkDue

\* setRecordingState after an await: a no-op once the widget is unmounted.
SetRecordingStateIfMounted(states) ==
  IF sheetOpen THEN SetRecordingState(states)
  ELSE UNCHANGED << recordingState, stateTrace >>

\* getUserMedia rejects: the catch block of startRecording.
GetUserMediaRejected ==
  /\ acquiring # 0
  /\ acquiring' = 0
  /\ SetRecordingStateIfMounted(<< "PERMISSION_DENIED" >>)
  /\ lastOp' = "getUserMediaRejected"
  /\ UNCHANGED << sheetOpen, currentTranscript, transcriptHistory,
                  finalTranscript, shownState, shownText, socketRef,
                  mediaRecorderRef, mediaStreamRef, liveStreams,
                  activeRecorders, openSockets, attempts, closeResult >>
  /\ UNCHANGED << chatVars, sheetVars >>
  /\ UNCHANGED finalChunkDue

\* getUserMedia yields no stream (browsers reject instead; this is the case
\* the `if (!mediaStreamRef)` check is written for).  The check tests the ref
\* object, which is never falsy, so ERROR is not set: `new MediaRecorder` is
\* given null, throws a TypeError, and the catch block runs.
GetUserMediaNoStream ==
  /\ acquiring # 0
  /\ acquiring' = 0
  /\ mediaStreamRef' = NullRef
  /\ SetRecordingStateIfMounted(<< "PERMISSION_DENIED" >>)
  /\ lastOp' = "getUserMediaNoStream"
  /\ UNCHANGED << sheetOpen, currentTranscript, transcriptHistory,
                  finalTranscript, shownState, shownText, socketRef,
                  mediaRecorderRef, liveStreams, activeRecorders, openSockets,
                  attempts, closeResult >>
  /\ UNCHANGED << chatVars, sheetVars >>
  /\ UNCHANGED finalChunkDue

\* getUserMedia resolves: startRecording after its await.  recorderOk is
\* false when the MediaRecorder constructor throws (mimeType not supported).
\* `if (!mediaStreamRef)` tests the ref object, which is never falsy.
GetUserMediaResolved(recorderOk) ==
  /\ acquiring # 0
  /\ acquiring' = 0
  /\ mediaStreamRef' = acquiring
  /\ liveStreams' = liveStreams \cup { acquiring }
  /\ IF ~recorderOk
     THEN /\ SetRecordingStateIfMounted(<< "PERMISSION_DENIED" >>)
          /\ UNCHANGED << mediaRecorderRef, socketRef, openSockets,
                          activeRecorders >>
     ELSE /\ mediaRecorderRef' = acquiring
          /\ IF socketRef # NullRef
             THEN \* throw new Error("Socket already initialized")
                  /\ SetRecordingStateIfMounted(<< "PERMISSION_DENIED" >>)
                  /\ UNCHANGED << socketRef, openSockets, activeRecorders >>
             ELSE /\ socketRef' = acquiring
                  /\ openSockets' = openSockets \cup { acquiring }
                  /\ activeRecorders' = activeRecorders \cup { acquiring }
                  /\ SetRecordingStateIfMounted(<< "RECORDING" >>)
  /\ lastOp' = "getUserMediaResolved"
  /\ UNCHANGED << sheetOpen, currentTranscript, transcriptHistory,
                  finalTranscript, shownState, shownText, attempts,
                  closeResult >>
  /\ UNCHANGED << chatVars, sheetVars >>
  /\ UNCHANGED finalChunkDue

\* The listener with a final event that leaves the pending slot as it is.
OnTranscriptKeepsPending(transcriptResponse) ==
  /\ openSockets # {}
  /\ transcriptResponse.isFinal => Len(transcriptHistory) < MaxHistory
  /\ IF sheetOpen
     THEN IF transcriptResponse.isFinal
          THEN /\ transcriptHistory' = Append(transcriptHistory, transcriptResponse)
               /\ UNCHANGED currentTranscript
          ELSE /\ currentTranscript' = << transcriptResponse >>
               /\ UNCHANGED transcriptHistory
     ELSE UNCHANGED << transcriptHistory, currentTranscript >>
  /\ lastOp' = "transcript"
  /\ UNCHANGED << sheetOpen, recordingState, finalTranscript, shownState,
                  shownText, socketRef, mediaRecorderRef, mediaStreamRef,
                  liveStreams, activeRecorders, openSockets, acquiring,
                  attempts, closeResult, stateTrace >>
  /\ UNCHANGED << chatVars, sheetVars >>
  /\ UNCHANGED finalChunkDue

\* The "transcript" listener of the socket.  The listener stays registered on
\* a socket that is still connected after the widget is unmounted; its state
\* updates are then no-ops.
OnTranscript(transcriptResponse) ==
  /\ openSockets # {}
  /\ transcriptResponse.isFinal => Len(transcriptHistory) < MaxHistory
  /\ IF sheetOpen
     THEN IF transcriptResponse.isFinal
          THEN /\ transcriptHistory' = Append(transcriptHistory, transcriptResponse)
               /\ currentTranscript' = << >>
          ELSE /\ currentTranscript' = << transcriptResponse >>
               /\ UNCHANGED transcriptHistory
     ELSE UNCHANGED << transcriptHistory, currentTranscript >>
  /\ lastOp' = "transcript"
  /\ UNCHANGED << sheetOpen, recordingState, finalTranscript, shownState,
                  shownText, socketRef, mediaRecorderRef, mediaStreamRef,
                  liveStreams, activeRecorders, openSockets, acquiring,
                  attempts, closeResult, stateTrace >>
  /\ UNCHANGED << chatVars, sheetVars >>
  /\ UNCHANGED finalChunkDue

\* The "dataavailable" listener of a recorder: a timeslice chunk of a
\* recorder that is recording, or the last chunk of a stopped one.  With
\* socketRef.current null it logs an error and the chunk is not sent.
OnDataAvailable(recorder) ==
  /\ recorder \in activeRecorders \cup finalChunkDue
  /\ finalChunkDue' = finalChunkDue \ { recorder }
  /\ lastOp' = IF socketRef # NullRef THEN "audio emitted" ELSE "audio dropped"
  /\ UNCHANGED << sheetOpen, recordingState, currentTranscript,
                  transcriptHistory, finalTranscript, shownState, shownText,
                  socketRef, mediaRecorderRef, mediaStreamRef, liveStreams,
                  activeRecorders, openSockets, acquiring, attempts,
                  closeResult, stateTrace >>
  /\ UNCHANGED << chatVars, sheetVars >>

\* The scheduler renders the updates made outside click handlers.
Render ==
  /\ sheetOpen
  /\ << shownState, shownText >> #
       << recordingState, TranscribeText(transcriptHistory, currentTranscript) >>
  /\ shownState' = recordingState
  /\ shownText' = TranscribeText(transcriptHistory, currentTranscript)
  /\ lastOp' = "render"
  /\ UNCHANGED << sheetOpen, recordingState, currentTranscript,
                  transcriptHistory, finalTranscript, socketRef,
                  mediaRecorderRef, mediaStreamRef, liveStreams,
                  activeRecorders, openSockets, acquiring, attempts,
                  closeResult, stateTrace >>
  /\ UNCHANGED << chatVars, sheetVars >>
  /\ UNCHANGED finalChunkDue

\* _stopRecordingDevices that stops the recorder and drops the refs but
\* stops no track.
StopRecordingDevicesKeepsTracks ==
  /\ activeRecorders' = activeRecorders \ { mediaRecorderRef }
  /\ finalChunkDue' = finalChunkDue \cup (activeRecorders \cap { mediaRecorderRef })
  /\ liveStreams' = liveStreams
  /\ mediaRecorderRef' = NullRef
  /\ mediaStreamRef' = NullRef

\* _stopRecordingDevices.  The recorder of attempt n records the stream of
\* attempt n.  MediaRecorder.stop() queues a last dataavailable event with
\* the data gathered since the previous one.
StopRecordingDevices ==
  /\ activeRecorders' = activeRecorders \ { mediaRecorderRef }
  /\ finalChunkDue' = finalChunkDue \cup (activeRecorders \cap { mediaRecorderRef })
  /\ liveStreams' = liveStreams \ { mediaRecorderRef, mediaStreamRef }
  /\ mediaRecorderRef' = NullRef
  /\ mediaStreamRef' = NullRef

\* The onSheetClosed callback the page passes to the widget it mounts,
\* `() => setSheetOpen(false)`: the widget is unmounted, the argument is not
\* read, and nothing of the chat shell is touched.
OnSheetClosed(transcript) ==
  /\ closeResult' = transcript
  /\ sheetOpen' = FALSE
  /\ UNCHANGED << chatVars, sheetVars >>

\* if (socketRef.current) { disconnect(); socketRef.current = null }
DisconnectSocket ==
  /\ openSockets' = openSockets \ { socketRef }
  /\ socketRef' = NullRef

\* onCloseButtonClick; the parent unmounts the widget in onSheetClosed.
OnCloseButtonClick ==
  /\ sheetOpen
  /\ StopRecordingDevices
  /\ DisconnectSocket
  /\ OnSheetClosed(ClosedWith(TRUE, << >>))
  /\ lastOp' = "onCloseButtonClick"
  /\ UNCHANGED << recordingState, currentTranscript, transcriptHistory,
                  finalTranscript, shownState, shownText, acquiring, attempts,
                  stateTrace >>

\* completeRecording that keeps the socket open and stays in PROCESSING while
\* a pending transcript is present.
CompleteRecordingWaits ==
  /\ sheetOpen
  /\ shownState = "RECORDING"
  /\ StopRecordingDevices
  /\ IF currentTranscript # << >>
     THEN /\ SetRecordingState(<< "PROCESSING" >>)
          /\ UNCHANGED << socketRef, openSockets, finalTranscript >>
     ELSE /\ DisconnectSocket
          /\ finalTranscript' = shownText
          /\ SetRecordingState(<< "PROCESSING", "COMPLETED" >>)
  /\ UNCHANGED << currentTranscript, transcriptHistory >>
  /\ Flush
  /\ lastOp' = "completeRecording"
  /\ UNCHANGED << sheetOpen, acquiring, attempts, closeResult >>
  /\ UNCHANGED << chatVars, sheetVars >>

\* completeRecording, the Stop Recording button.  It has no await: the whole
\* body runs in the click.  transcribeText is the value of the render the
\* button belongs to.
CompleteRecording ==
  /\ sheetOpen
  /\ shownState = "RECORDING"
  /\ StopRecordingDevices
  /\ DisconnectSocket
  /\ finalTranscript' = shownText
  /\ SetRecordingState(<< "PROCESSING", "COMPLETED" >>)
  /\ UNCHANGED << currentTranscript, transcriptHistory >>
  /\ Flush
  /\ lastOp' = "completeRecording"
  /\ UNCHANGED << sheetOpen, acquiring, attempts, closeResult >>
  /\ UNCHANGED << chatVars, sheetVars >>

\* The Use Text Alternative button offered in COMPLETED as well.
UseTextAlternativeAfterRecording ==
  /\ sheetOpen
  /\ shownState \in { "NOT_STARTED", "COMPLETED" }
  /\ SetRecordingState(<< "USE_TEXT_ALTERNATIVE" >>)
  /\ UNCHANGED << currentTranscript, transcriptHistory >>
  /\ Flush
  /\ lastOp' = "useTextAlternative"
  /\ UNCHANGED << sheetOpen, finalTranscript, socketRef, mediaRecorderRef,
                  mediaStreamRef, liveStreams, activeRecorders, openSockets,
                  acquiring, attempts, closeResult >>
  /\ UNCHANGED << chatVars, sheetVars >>
  /\ UNCHANGED finalChunkDue

\* The Use Text Alternative button.
UseTextAlternative ==
  /\ sheetOpen
  /\ shownState = "NOT_STARTED"
  /\ SetRecordingState(<< "USE_TEXT_ALTERNATIVE" >>)
  /\ UNCHANGED << currentTranscript, transcriptHistory >>
  /\ Flush
  /\ lastOp' = "useTextAlternative"
  /\ UNCHANGED << sheetOpen, finalTranscript, socketRef, mediaRecorderRef,
                  mediaStreamRef, liveStreams, activeRecorders, openSockets,
                  acquiring, attempts, closeResult >>
  /\ UNCHANGED << chatVars, sheetVars >>
  /\ UNCHANGED finalChunkDue

\* The editable buffer and its Done button rendered in RECORDING as well.
DoneButtonShownWhileRecording ==
  shownState \in { "RECORDING", "COMPLETED", "USE_TEXT_ALTERNATIVE" }

\* The textarea of the editable buffer.
DoneButtonShown == shownState \in { "COMPLETED", "USE_TEXT_ALTERNATIVE" }

OnFinalTranscriptChange(value) ==
  /\ sheetOpen
  /\ DoneButtonShown
  /\ finalTranscript # value
  /\ finalTranscript' = value
  /\ lastOp' = "onFinalTranscriptChange"
  /\ UNCHANGED << sheetOpen, recordingState, currentTranscript,
                  transcriptHistory, shownState, shownText, socketRef,
                  mediaRecorderRef, mediaStreamRef, liveStreams,
                  activeRecorders, openSockets, acquiring, attempts,
                  closeResult, stateTrace >>
  /\ UNCHANGED << chatVars, sheetVars >>
  /\ UNCHANGED finalChunkDue

\* The Done button: onSheetClosed(finalTranscript).
Done ==
  /\ sheetOpen
  /\ DoneButtonShown
  /\ OnSheetClosed(ClosedWith(FALSE, finalTranscript))
  /\ lastOp' = "done"
  /\ UNCHANGED finalChunkDue
  /\ UNCHANGED << recordingState, currentTranscript, transcriptHistory,
                  finalTranscript, shownState, shownText, socketRef,
                  mediaRecorderRef, mediaStreamRef, liveStreams,
                  activeRecorders, openSockets, acquiring, attempts,
                  stateTrace >>

Next ==
  \/ StartRecording
  \/ GetUserMediaRejected
  \/ GetUserMediaNoStream
  \/ \E recorderOk \in BOOLEAN : GetUserMediaResolved(recorderOk)
  \/ \E transcriptResponse \in TranscriptResponse : OnTranscript(transcriptResponse)
  \/ \E recorder \in 1 .. MaxAttempts : OnDataAvailable(recorder)
  \/ Render
  \/ OnCloseButtonClick
  \/ CompleteRecording
  \/ UseTextAlternative
  \/ \E value \in EditedText : OnFinalTranscriptChange(value)
  \/ Done

Spec == Init /\ [][Next]_vars

(* --------------------------- chat shell -------------------------------- *)

InputRequest == << "input_request" >>

\* The frames the chat socket delivers.
Frame ==
  { InputRequest,
    << "Interviewer:", Space, "hi" >>,
    << "Candidate:", Space, "hi", Space, "yo" >>,
    << "Candidate:" >>,
    << "Unknown:", Space, "hi" >>,
    << Space, "hi" >>,
    << >> }

\* What the user may type into the chat input.
InputText == { << >>, << Space >>, << "hello" >>, << Space, "hello", Space, "there" >> }

allowedTags == { << "Interviewer:" >>, << "Candidate:" >> }

\* A render of Home and ChatInput that sees all committed state.
ChatFlush ==
  /\ shownInputActive' = inputActive'
  /\ shownMessages' = messages'

\* useWebSocket's onMessage.  The callback is the one of the last render, so
\* `messages` is the list that render saw.
OnMessage(message) ==
  /\ chatOp' = "onMessage"
  /\ IF message = InputRequest
     THEN /\ nRequests < MaxRequests
          /\ inputActive' = TRUE
          /\ nRequests' = nRequests + 1
          /\ requestSinceSend' = TRUE
          /\ lastError' = ""
          /\ UNCHANGED messages
     ELSE LET messageAuthor == Split(message)[1]
              message_text == Join(Tail(Split(message)), << Space >>)
          IN /\ UNCHANGED << inputActive, nRequests, requestSinceSend >>
             /\ IF messageAuthor = << >>
                THEN /\ lastError' = "Message author not found"
                     /\ UNCHANGED messages
                ELSE /\ lastError' = ""
                     /\ IF messageAuthor \notin allowedTags
                        THEN UNCHANGED messages
                        ELSE /\ Len(shownMessages) < MaxMessages
                             /\ messages' = Append(shownMessages,
                                  [ message |-> message_text, name |-> messageAuthor ])
  /\ UNCHANGED << inputValue, shownInputActive, shownMessages, sent >>
  /\ UNCHANGED << modalVars, sheetVars >>

\* ChatInput's handleInputChange
HandleInputChange(value) ==
  /\ inputValue # value
  /\ inputValue' = value
  /\ lastError' = ""
  /\ chatOp' = "handleInputChange"
  /\ UNCHANGED << inputActive, messages, shownInputActive, shownMessages, sent,
                  nRequests, requestSinceSend >>
  /\ UNCHANGED << modalVars, sheetVars >>

\* handleSendClick that leaves the input gate open after a send.
HandleSendClickKeepsActive ==
  /\ chatOp' = "handleSendClick"
  /\ IF ~shownInputActive
     THEN /\ lastError' = "Input is not active"
          /\ UNCHANGED << inputActive, messages, inputValue, shownInputActive,
                          shownMessages, sent, requestSinceSend >>
     ELSE /\ lastError' = ""
          /\ IF Trim(inputValue) # << >>
             THEN /\ Len(sent) < MaxSent
                  /\ sent' = Append(sent, inputValue)
                  /\ inputValue' = << >>
                  /\ requestSinceSend' = FALSE
                  /\ UNCHANGED << inputActive, messages >>
                  /\ ChatFlush
             ELSE UNCHANGED << inputActive, messages, inputValue,
                               shownInputActive, shownMessages, sent,
                               requestSinceSend >>
  /\ UNCHANGED nRequests
  /\ UNCHANGED << modalVars, sheetVars >>

\* handleSendClick without the isInputActive check.
HandleSendClickNoCheck ==
  /\ chatOp' = "handleSendClick"
  /\ lastError' = ""
  /\ IF Trim(inputValue) # << >>
     THEN /\ Len(sent) < MaxSent
          /\ sent' = Append(sent, inputValue)
          /\ inputValue' = << >>
          /\ inputActive' = FALSE
          /\ requestSinceSend' = FALSE
          /\ UNCHANGED messages
          /\ ChatFlush
     ELSE UNCHANGED << inputActive, messages, inputValue, shownInputActive,
                       shownMessages, sent, requestSinceSend >>
  /\ UNCHANGED nRequests
  /\ UNCHANGED << modalVars, sheetVars >>

\* ChatInput's handleSendClick; isInputActive is the prop of the last render
\* and onSendMessage is Home's postMessage.
HandleSendClick ==
  /\ chatOp' = "handleSendClick"
  /\ IF ~shownInputActive
     THEN /\ lastError' = "Input is not active"
          /\ UNCHANGED << inputActive, messages, inputValue, shownInputActive,
                          shownMessages, sent, requestSinceSend >>
     ELSE /\ lastError' = ""
          /\ IF Trim(inputValue) # << >>
             THEN /\ Len(sent) < MaxSent
                  /\ sent' = Append(sent, inputValue)
                  /\ inputValue' = << >>
                  /\ inputActive' = FALSE
                  /\ requestSinceSend' = FALSE
                  /\ UNCHANGED messages
                  /\ ChatFlush
             ELSE UNCHANGED << inputActive, messages, inputValue,
                               shownInputActive, shownMessages, sent,
                               requestSinceSend >>
  /\ UNCHANGED nRequests
  /\ UNCHANGED << modalVars, sheetVars >>

\* The scheduler renders the updates made in onMessage.
ChatRender ==
  /\ << shownInputActive, shownMessages >> # << inputActive, messages >>
  /\ shownInputActive' = inputActive
  /\ shownMessages' = messages
  /\ chatOp' = "render"
  /\ UNCHANGED << inputActive, messages, inputValue, sent, nRequests,
                  requestSinceSend, lastError >>
  /\ UNCHANGED << modalVars, sheetVars >>

ChatNext ==
  \/ \E message \in Frame : OnMessage(message)
  \/ \E value \in InputText : HandleInputChange(value)
  \/ HandleSendClick
  \/ ChatRender

ChatSpec == Init /\ [][ChatNext]_vars

(* ---------------------- Recorder / RecordingSheet ---------------------- *)

\* socket, mediaRecorder and mediaStream are `let` variables of the component
\* function: every render runs the function again and so makes new ones, all
\* null, for the handlers it attaches.  startRecording assigns the variables
\* of the render its Record button belonged to; the state updates of that
\* click are rendered before getUserMedia settles, so by then the buttons on
\* screen belong to a later render.  Stream, recorder and socket of attempt n
\* are numbered n.

\* A render of RecordingSheet that sees all committed state.
SheetFlush ==
  /\ sheetShownState' = sheetRecordingState'
  /\ sheetShownTranscript' = sheetCurrentTranscript'
  /\ socket' = NullRef
  /\ mediaRecorder' = NullRef
  /\ mediaStream' = NullRef

\* The instance that made this attempt is the one on screen.
SheetMounted(attempt) ==
  recorderSheetOpen /\ sheetOwner[attempt] = sheetInstance

\* setRecordingState after an await: a no-op once the instance is unmounted.
SheetSetRecordingState(attempt, state) ==
  IF SheetMounted(attempt) THEN sheetRecordingState' = state
  ELSE UNCHANGED sheetRecordingState

\* Recorder's round button: setSheetOpen(true) mounts a new RecordingSheet
\* with its initial state.  A stopRecording of an earlier instance that is
\* still in its wait loop can neither leave the loop nor change anything, and
\* is not followed further.
OpenSheet ==
  /\ ~recorderSheetOpen
  /\ sheetInstance < MaxOpens
  /\ recorderSheetOpen' = TRUE
  /\ sheetInstance' = sheetInstance + 1
  /\ sheetRecordingState' = "NOT_STARTED"
  /\ sheetCurrentTranscript' = << >>
  /\ sheetTranscriptHistory' = << >>
  /\ SheetFlush
  /\ stopWaiting' = << >>
  /\ sheetOp' = "openSheet"
  /\ UNCHANGED << sheetLiveStreams, sheetActiveRecorders, sheetOpenSockets,
                  sheetAcquiring, sheetOwner >>
  /\ UNCHANGED << modalVars, chatVars >>

\* onSheetClosed as Recorder passes it, the X button and the Done button:
\* setSheetOpen(false) unmounts the sheet; nothing is stopped or disconnected.
CloseSheet ==
  /\ recorderSheetOpen
  /\ recorderSheetOpen' = FALSE
  /\ sheetOp' = "onSheetClosed"
  /\ UNCHANGED << sheetInstance, sheetRecordingState, sheetCurrentTranscript,
                  sheetTranscriptHistory, sheetShownState, sheetShownTranscript,
                  socket, mediaRecorder, mediaStream, sheetLiveStreams,
                  sheetActiveRecorders, sheetOpenSockets, sheetAcquiring,
                  sheetOwner, stopWaiting >>
  /\ UNCHANGED << modalVars, chatVars >>

\* RecordingSheet's startRecording up to its await (Record, Record Again).
SheetStartRecording ==
  /\ recorderSheetOpen
  /\ sheetShownState \in { "NOT_STARTED", "COMPLETED" }
  /\ Len(sheetOwner) < MaxAttempts
  /\ sheetCurrentTranscript' = << >>
  /\ sheetTranscriptHistory' = << >>
  /\ sheetRecordingState' = "WAITING_FOR_PERMISSION"
  /\ sheetOwner' = Append(sheetOwner, sheetInstance)
  /\ sheetAcquiring' = sheetAcquiring \cup { Len(sheetOwner) + 1 }
  /\ SheetFlush
  /\ sheetOp' = "startRecording"
  /\ UNCHANGED << recorderSheetOpen, sheetInstance, sheetLiveStreams,
                  sheetActiveRecorders, sheetOpenSockets, stopWaiting >>
  /\ UNCHANGED << modalVars, chatVars >>

\* getUserMedia rejects: the catch block of RecordingSheet's startRecording.
SheetGetUserMediaRejected(attempt) ==
  /\ attempt \in sheetAcquiring
  /\ sheetAcquiring' = sheetAcquiring \ { attempt }
  /\ SheetSetRecordingState(attempt, "PERMISSION_DENIED")
  /\ sheetOp' = "getUserMediaRejected"
  /\ UNCHANGED << recorderSheetOpen, sheetInstance, sheetCurrentTranscript,
                  sheetTranscriptHistory, sheetShownState, sheetShownTranscript,
                  socket, mediaRecorder, mediaStream, sheetLiveStreams,
                  sheetActiveRecorders, sheetOpenSockets, sheetOwner,
                  stopWaiting >>
  /\ UNCHANGED << modalVars, chatVars >>

\* getUserMedia yields no stream: `if (!mediaStream) return
\* setRecordingState(ERROR)`.
SheetGetUserMediaNoStream(attempt) ==
  /\ attempt \in sheetAcquiring
  /\ sheetAcquiring' = sheetAcquiring \ { attempt }
  /\ SheetSetRecordingState(attempt, "ERROR")
  /\ sheetOp' = "getUserMediaNoStream"
  /\ UNCHANGED << recorderSheetOpen, sheetInstance, sheetCurrentTranscript,
                  sheetTranscriptHistory, sheetShownState, sheetShownTranscript,
                  socket, mediaRecorder, mediaStream, sheetLiveStreams,
                  sheetActiveRecorders, sheetOpenSockets, sheetOwner,
                  stopWaiting >>
  /\ UNCHANGED << modalVars, chatVars >>

\* getUserMedia resolves: RecordingSheet's startRecording after its await.
\* recorderOk is false when the MediaRecorder constructor throws.  The stream,
\* the recorder and the socket are assigned to the variables of the render
\* that handled the Record click, not to those of the render on screen.
SheetGetUserMediaResolved(attempt, recorderOk) ==
  /\ attempt \in sheetAcquiring
  /\ sheetAcquiring' = sheetAcquiring \ { attempt }
  /\ sheetLiveStreams' = sheetLiveStreams \cup { attempt }
  /\ IF ~recorderOk
     THEN /\ SheetSetRecordingState(attempt, "PERMISSION_DENIED")
          /\ UNCHANGED << sheetOpenSockets, sheetActiveRecorders >>
     ELSE /\ sheetOpenSockets' = sheetOpenSockets \cup { attempt }
          /\ sheetActiveRecorders' = sheetActiveRecorders \cup { attempt }
          /\ SheetSetRecordingState(attempt, "RECORDING")
  /\ sheetOp' = "getUserMediaResolved"
  /\ UNCHANGED << recorderSheetOpen, sheetInstance, sheetCurrentTranscript,
                  sheetTranscriptHistory, sheetShownState, sheetShownTranscript,
                  socket, mediaRecorder, mediaStream, sheetOwner, stopWaiting >>
  /\ UNCHANGED << modalVars, chatVars >>

\* The "transcript" listener of the socket of an attempt; its state updates
\* are no-ops once the instance that made the attempt is unmounted.
SheetOnTranscript(attempt, transcriptResponse) ==
  /\ attempt \in sheetOpenSockets
  /\ IF SheetMounted(attempt)
     THEN IF transcriptResponse.isFinal
          THEN /\ Len(sheetTranscriptHistory) < MaxHistory
               /\ sheetTranscriptHistory' =
                    Append(sheetTranscriptHistory, transcriptResponse)
               /\ sheetCurrentTranscript' = << >>
          ELSE /\ sheetCurrentTranscript' = << transcriptResponse >>
               /\ UNCHANGED sheetTranscriptHistory
     ELSE UNCHANGED << sheetTranscriptHistory, sheetCurrentTranscript >>
  /\ sheetOp' = "transcript"
  /\ UNCHANGED << recorderSheetOpen, sheetInstance, sheetRecordingState,
                  sheetShownState, sheetShownTranscript, socket, mediaRecorder,
                  mediaStream, sheetLiveStreams, sheetActiveRecorders,
                  sheetOpenSockets, sheetAcquiring, sheetOwner, stopWaiting >>
  /\ UNCHANGED << modalVars, chatVars >>

\* The "dataavailable" listener of a recorder that is recording.  Its
\* `socket` is the variable startRecording assigned before it registered the
\* listener, so the chunk is emitted.
SheetOnDataAvailable(recorder) ==
  /\ recorder \in sheetActiveRecorders
  /\ sheetOp' = "audio emitted"
  /\ UNCHANGED << recorderSheetOpen, sheetInstance, sheetRecordingState,
                  sheetCurrentTranscript, sheetTranscriptHistory,
                  sheetShownState, sheetShownTranscript, socket, mediaRecorder,
                  mediaStream, sheetLiveStreams, sheetActiveRecorders,
                  sheetOpenSockets, sheetAcquiring, sheetOwner, stopWaiting >>
  /\ UNCHANGED << modalVars, chatVars >>

\* The scheduler renders the updates made outside click handlers.
SheetRender ==
  /\ recorderSheetOpen
  /\ << sheetShownState, sheetShownTranscript >> #
       << sheetRecordingState, sheetCurrentTranscript >>
  /\ sheetShownState' = sheetRecordingState
  /\ sheetShownTranscript' = sheetCurrentTranscript
  /\ socket' = NullRef
  /\ mediaRecorder' = NullRef
  /\ mediaStream' = NullRef
  /\ sheetOp' = "render"
  /\ UNCHANGED << recorderSheetOpen, sheetInstance, sheetRecordingState,
                  sheetCurrentTranscript, sheetTranscriptHistory,
                  sheetLiveStreams, sheetActiveRecorders, sheetOpenSockets,
                  sheetAcquiring, sheetOwner, stopWaiting >>
  /\ UNCHANGED << modalVars, chatVars >>

\* stopRecording up to its first await, the Stop Recording button.
\* mediaRecorder, mediaStream, socket and currentTranscript are those of the
\* render the button belongs to.  With currentTranscript null the loop is not
\* entered and the rest of the body runs in the click; otherwise the call
\* stays in the loop.  The render that follows the click makes the three
\* variables anew (the body also sets mediaRecorder and mediaStream to null).
SheetStopRecording ==
  /\ recorderSheetOpen
  /\ sheetShownState = "RECORDING"
  /\ sheetActiveRecorders' = sheetActiveRecorders \ { mediaRecorder }
  /\ sheetLiveStreams' = sheetLiveStreams \ { mediaStream }
  /\ IF sheetShownTranscript # << >>
     THEN /\ sheetRecordingState' = "PROCESSING"
          /\ stopWaiting' = sheetShownTranscript
          /\ UNCHANGED sheetOpenSockets
     ELSE /\ sheetOpenSockets' = sheetOpenSockets \ { socket }
          /\ sheetRecordingState' = "COMPLETED"
          /\ UNCHANGED stopWaiting
  /\ UNCHANGED << sheetCurrentTranscript, sheetTranscriptHistory >>
  /\ SheetFlush
  /\ sheetOp' = "stopRecording"
  /\ UNCHANGED << recorderSheetOpen, sheetInstance, sheetAcquiring, sheetOwner >>
  /\ UNCHANGED << modalVars, chatVars >>

\* The 100 ms timer of stopRecording's wait loop fires and the loop tests
\* `currentTranscript != null` again.  currentTranscript is the constant of
\* the render the Stop button belonged to, the value the loop was entered
\* with, so the loop goes round again.
SheetStopRecordingPoll ==
  /\ stopWaiting # << >>
  /\ sheetOp' = "stopRecording poll"
  /\ UNCHANGED << recorderSheetOpen, sheetInstance, sheetRecordingState,
                  sheetCurrentTranscript, sheetTranscriptHistory,
                  sheetShownState, sheetShownTranscript, socket, mediaRecorder,
                  mediaStream, sheetLiveStreams, sheetActiveRecorders,
                  sheetOpenSockets, sheetAcquiring, sheetOwner, stopWaiting >>
  /\ UNCHANGED << modalVars, chatVars >>

SheetNext ==
  \/ OpenSheet
  \/ CloseSheet
  \/ SheetStartRecording
  \/ \E attempt \in 1 .. MaxAttempts : SheetGetUserMediaRejected(attempt)
  \/ \E attempt \in 1 .. MaxAttempts : SheetGetUserMediaNoStream(attempt)
  \/ \E attempt \in 1 .. MaxAttempts, recorderOk \in BOOLEAN :
       SheetGetUserMediaResolved(attempt, recorderOk)
  \/ \E attempt \in 1 .. MaxAttempts, transcriptResponse \in TranscriptResponse :
       SheetOnTranscript(attempt, transcriptResponse)
  \/ \E recorder \in 1 .. MaxAttempts : SheetOnDataAvailable(recorder)
  \/ SheetRender
  \/ SheetStopRecording
  \/ SheetStopRecordingPoll

SheetSpec == Init /\ [][SheetNext]_vars

\* The timer of the wait loop fires and the scheduler renders.
SheetLiveSpec ==
  SheetSpec /\ WF_vars(SheetStopRecordingPoll) /\ WF_vars(SheetRender)

TypeOK ==
  /\ recordingState \in RecodingState
  /\ Len(currentTranscript) <= 1
  /\ Len(transcriptHistory) <= MaxHistory
  /\ Len(messages) <= MaxMessages
  /\ Len(sent) <= MaxSent

(* ------------------------ RecordingModal claims ------------------------ *)

\* C1: once the close button has been clicked (onSheetClosed called with
\* null), no device stream has a live track and no transcription socket is
\* open, in that state and in every later one.
C1_ClosedHoldsNoResource ==
  (closeResult.called /\ closeResult.isNull) =>
    (liveStreams = {} /\ openSockets = {})

C3_RecordOfferedAfterDenied ==
  /\ (sheetOpen /\ lastOp = "getUserMediaRejected") =>
       (recordingState = "PERMISSION_DENIED" /\ acquiring = 0)
  /\ (sheetOpen /\ shownState = "PERMISSION_DENIED") => RecordButtonShown

AllowedTransition ==
  { << "NOT_STARTED", "WAITING_FOR_PERMISSION" >>,
    << "NOT_STARTED", "USE_TEXT_ALTERNATIVE" >>,
    << "WAITING_FOR_PERMISSION", "RECORDING" >>,
    << "WAITING_FOR_PERMISSION", "PERMISSION_DENIED" >>,
    << "WAITING_FOR_PERMISSION", "ERROR" >>,
    << "RECORDING", "PROCESSING" >>,
    << "PROCESSING", "COMPLETED" >>,
    << "COMPLETED", "WAITING_FOR_PERMISSION" >> }

\* C4: every change of recordingState is one of the listed transitions.
C4_OnlyListedTransitions ==
  \A i \in 1 .. Len(stateTrace) - 1 :
    << stateTrace[i], stateTrace[i + 1] >> \in AllowedTransition

\* C4 witness: a recording was completed and a second one started.
C4_Witness ==
  /\ Len(stateTrace) >= 6
  /\ stateTrace[5] = "COMPLETED"
  /\ stateTrace[6] = "WAITING_FOR_PERMISSION"

\* C5: a non-final transcript event replaces the pending slot by that event
\* and leaves the history unchanged; a final event empties the pending slot
\* and appends exactly that event to the history.
C5_TranscriptAccumulation ==
  [][\A e \in TranscriptResponse :
       (sheetOpen /\ OnTranscript(e)) =>
         IF e.isFinal
         THEN /\ currentTranscript' = << >>
              /\ transcriptHistory' = Append(transcriptHistory, e)
         ELSE /\ currentTranscript' = << e >>
              /\ transcriptHistory' = transcriptHistory]_vars

\* C5 witness: a final event arrived after an earlier final one and emptied
\* the pending slot.
C5_Witness ==
  /\ sheetOpen
  /\ lastOp = "transcript"
  /\ Len(transcriptHistory) = 2
  /\ currentTranscript = << >>

\* C6: once recording has stopped (Processing or Completed) the pending
\* transcript slot is empty.
C6_PendingEmptyAfterStop ==
  recordingState \in { "PROCESSING", "COMPLETED" } => currentTranscript = << >>

\* C7: when Stop has been handled, the editable buffer is the history texts
\* joined by single spaces followed by the pending text, over the history
\* and the pending slot as they were when Stop was clicked.
C7_BufferIsTranscriptAtStop ==
  lastOp = "completeRecording" =>
    finalTranscript = TranscribeText(transcriptHistory, currentTranscript)

C15_ClosingPayloads ==
  /\ [](sheetOpen => ENABLED OnCloseButtonClick)
  /\ [][OnCloseButtonClick => closeResult' = ClosedWith(TRUE, << >>)]_vars
  /\ [][(~closeResult.called /\ closeResult'.called /\ ~closeResult'.isNull) =>
          /\ lastOp' = "done"
          /\ shownState \in { "COMPLETED", "USE_TEXT_ALTERNATIVE" }
          /\ recordingState = shownState
          /\ closeResult'.text = finalTranscript]_vars

\* C15 witness: Done in Completed handed over the edited buffer.
C15_Witness ==
  /\ closeResult = ClosedWith(FALSE, << "ok" >>)
  /\ recordingState = "COMPLETED"
  /\ lastOp = "done"

RECURSIVE HistoryTextFromEnd(_)
\* The history texts with one space between neighbours, built from the end.
HistoryTextFromEnd(history) ==
  IF Len(history) = 0 THEN << >>
  ELSE IF Len(history) = 1 THEN history[1].transcript
  ELSE HistoryTextFromEnd(SubSeq(history, 1, Len(history) - 1))
         \o << Space >> \o history[Len(history)].transcript

\* The text of the pending slot, empty when the slot is.
PendingText(current) ==
  IF Len(current) = 0 THEN << >> ELSE current[1].transcript

\* C16: the transcript computed for display is the history texts joined by
\* a single space, directly followed by the pending text if there is one,
\* and it is what every render shows.
C16_DisplayedTranscript ==
  /\ TranscribeText(transcriptHistory, currentTranscript) =
       HistoryTextFromEnd(transcriptHistory) \o PendingText(currentTranscript)
  /\ (lastOp \in { "render", "startRecording", "completeRecording",
                   "useTextAlternative" }) =>
       shownText =
         HistoryTextFromEnd(transcriptHistory) \o PendingText(currentTranscript)

\* C16 witness: two history entries and a pending one are shown.
C16_Witness ==
  /\ lastOp = "render"
  /\ Len(transcriptHistory) = 2
  /\ currentTranscript # << >>
  /\ shownText = << "hi", Space, "yo", "hi" >>

RECURSIVE SumOver(_, _)
\* The sum of values[i] over the positions i in S.
SumOver(S, values) ==
  IF S = {} THEN 0
  ELSE LET i == CHOOSE j \in S : TRUE
       IN values[i] + SumOver(S \ { i }, values)

\* result is total / n rounded to the nearest integer (n > 0).
IsRoundedMean(result, total, n) ==
  /\ 2 * n * result <= 2 * total + n
  /\ 2 * total + n < 2 * n * (result + 1)

\* C17: average clarity is the rounded percentage of the mean of 0.5 and the
\* clarity scores of exactly the entries that carry one, average speed the
\* rounded mean of 150 and the averageSpeedWPM of exactly the entries that
\* carry one; a history without scores gives 50 and 150, one entry scoring
\* 0.9 gives 70 and one entry at 130 WPM gives 140.
C17_DerivedMetrics ==
  LET h == transcriptHistory
      scored == { i \in 1 .. Len(h) : h[i].speechClarity # Undefined }
      timed == { i \in 1 .. Len(h) : h[i].averageSpeedWPM # Undefined }
      clarity == [ i \in 1 .. Len(h) |-> h[i].speechClarity ]
      speed == [ i \in 1 .. Len(h) |-> h[i].averageSpeedWPM ]
  IN /\ IsRoundedMean(AverageClarity(h), 50 + SumOver(scored, clarity),
                      1 + Cardinality(scored))
     /\ IsRoundedMean(AverageSpeedWPM(h), 150 + SumOver(timed, speed),
                      1 + Cardinality(timed))
     /\ scored = {} => AverageClarity(h) = 50
     /\ timed = {} => AverageSpeedWPM(h) = 150
     /\ h = << Response(<< "hi" >>, TRUE, 90, Undefined) >> =>
          (AverageClarity(h) = 70 /\ AverageSpeedWPM(h) = 150)
     /\ h = << Response(<< "yo" >>, TRUE, Undefined, 130) >> =>
          (AverageSpeedWPM(h) = 140 /\ AverageClarity(h) = 50)

\* C17 witness: one entry with a clarity score only and one with a speed
\* only give 70 and 140.
C17_Witness ==
  /\ transcriptHistory = << Response(<< "hi" >>, TRUE, 90, Undefined),
                            Response(<< "yo" >>, TRUE, Undefined, 130) >>
  /\ AverageClarity(transcriptHistory) = 70
  /\ AverageSpeedWPM(transcriptHistory) = 140

\* C18: every Record click empties the history and the pending slot and
\* sets WaitingForPermission while the device is only being requested; the
\* two stay empty while waiting, and afterwards they change only through
\* the socket of the new attempt.
C18_RecordResetsTranscript ==
  /\ [][StartRecording =>
          /\ transcriptHistory' = << >>
          /\ currentTranscript' = << >>
          /\ recordingState' = "WAITING_FOR_PERMISSION"
          /\ acquiring' = attempts'
          /\ liveStreams' = liveStreams
          /\ mediaStreamRef' = mediaStreamRef]_vars
  /\ [](recordingState = "WAITING_FOR_PERMISSION" =>
          (transcriptHistory = << >> /\ currentTranscript = << >>))
  /\ [][(/\ << transcriptHistory', currentTranscript' >> #
              << transcriptHistory, currentTranscript >>
         /\ ~StartRecording) =>
          (openSockets = { attempts } /\ socketRef = attempts)]_vars

\* C18 witness: Record Again after a recording that produced the text "hi".
C18_Witness ==
  /\ attempts = 2
  /\ lastOp = "startRecording"
  /\ recordingState = "WAITING_FOR_PERMISSION"
  /\ finalTranscript = << "hi" >>
  /\ transcriptHistory = << >>
  /\ currentTranscript = << >>

\* C19: every audio chunk a recorder produces, the last one delivered after
\* the recorder is stopped included, is emitted on the transcription socket.
C19_EveryChunkEmitted == lastOp # "audio dropped"

\* C20: when the device acquisition yields no stream while the widget waits
\* for permission, the state becomes Error.
C20_ErrorWhenNoStream ==
  (sheetOpen /\ lastOp = "getUserMediaNoStream") => recordingState = "ERROR"

\* C21: while the mounted widget is in NotStarted, PermissionDenied, Error,
\* Completed or UseTextAlternative, no device stream has a live track and no
\* transcription socket is open, also after a startRecording that failed
\* once the device stream had been acquired.
C21_ResourcesOnlyWhileWaitingOrRecording ==
  (sheetOpen /\ recordingState \in { "NOT_STARTED", "PERMISSION_DENIED", "ERROR",
                                     "COMPLETED", "USE_TEXT_ALTERNATIVE" }) =>
    (liveStreams = {} /\ openSockets = {})

(* -------------------------- chat shell claims -------------------------- *)

\* C9: submissions never outnumber the input_request frames received, and
\* every submission is made with an input_request received since the
\* previous submission, adds one frame and leaves inputActive false.
C9_OneSubmissionPerRequest ==
  /\ [](Len(sent) <= nRequests)
  /\ [][Len(sent') # Len(sent) =>
          /\ Len(sent') = Len(sent) + 1
          /\ requestSinceSend
          /\ inputActive
          /\ ~inputActive']_vars

\* C9 witness: two requests were received and two submissions made.
C9_Witness ==
  /\ Len(sent) = 2
  /\ nRequests = 2
  /\ ~inputActive

\* C10: a Send attempted while inputActive is false raises "Input is not
\* active", sends nothing and leaves the input text, the message list and
\* inputActive unchanged.
C10_InactiveSendRejected ==
  [][(HandleSendClick /\ ~inputActive) =>
       /\ lastError' = "Input is not active"
       /\ sent' = sent
       /\ inputValue' = inputValue
       /\ messages' = messages
       /\ inputActive' = inputActive]_vars

\* C10 witness: Send was attempted with text typed while the gate was closed.
C10_Witness ==
  /\ chatOp = "handleSendClick"
  /\ lastError = "Input is not active"
  /\ ~inputActive
  /\ Trim(inputValue) # << >>

\* The position of the first space of a frame, or 0.
FirstSpace(s) ==
  IF \E i \in 1 .. Len(s) : s[i] = Space
  THEN CHOOSE i \in 1 .. Len(s) :
         s[i] = Space /\ \A j \in 1 .. i - 1 : s[j] # Space
  ELSE 0

\* The frame up to its first space (the whole frame if it has none).
FirstToken(s) ==
  IF FirstSpace(s) = 0 THEN s ELSE SubSeq(s, 1, FirstSpace(s) - 1)

\* The frame after its first space (empty if it has none).
AfterFirstSpace(s) ==
  IF FirstSpace(s) = 0 THEN << >> ELSE SubSeq(s, FirstSpace(s) + 1, Len(s))

\* C12: a received frame whose first token is Interviewer: or Candidate:
\* appends exactly one message, with that token as author and the rest of
\* the frame after the first space as text; a frame with any other
\* non-empty first token, input_request included, leaves the list unchanged.
C12_FrameParsedAndAppended ==
  [][\A m \in Frame :
       OnMessage(m) =>
         IF FirstToken(m) \in { << "Interviewer:" >>, << "Candidate:" >> }
         THEN messages' = Append(messages,
                [ message |-> AfterFirstSpace(m), name |-> FirstToken(m) ])
         ELSE FirstToken(m) # << >> => messages' = messages]_vars

\* C13: a frame with no author tag (the empty frame, a frame that begins
\* with a space) is dropped without an error; the message list and
\* inputActive stay as they are.
C13_MalformedFrameDropped ==
  [][\A m \in Frame :
       (OnMessage(m) /\ FirstToken(m) = << >>) =>
         /\ lastError' = ""
         /\ messages' = messages
         /\ inputActive' = inputActive]_vars

\* C14: the message list is append-only: no step removes or replaces a
\* message already in the list, and a frame with an allowed author tag
\* makes the list one longer.
C14_MessagesAppendOnly ==
  [][/\ Len(messages') >= Len(messages)
     /\ SubSeq(messages', 1, Len(messages)) = messages
     /\ \A m \in Frame :
          (OnMessage(m) /\ FirstToken(m) \in allowedTags) =>
            Len(messages') = Len(messages) + 1]_vars

(* ----------------------- widget and chat shell ------------------------- *)

\* C11: when the widget has closed with a text payload, the last frame the
\* chat shell sent is that text and inputActive is false.
C11_PayloadIsSent ==
  (closeResult.called /\ ~closeResult.isNull) =>
    /\ Len(sent) > 0
    /\ sent[Len(sent)] = closeResult.text
    /\ ~inputActive

(* ------------------------ RecordingSheet claims ------------------------ *)

\* The attempts made by the RecordingSheet instance on screen.
SheetAttempts ==
  { n \in 1 .. Len(sheetOwner) : sheetOwner[n] = sheetInstance }

\* C22: in RecordingSheet a Stop click in RECORDING stops the recorder and
\* every device track the instance's startRecording opened; while the state
\* is PROCESSING with a pending transcript the socket stays open; and once
\* the pending transcript is empty (its final event has arrived) the sheet,
\* if it stays mounted, reaches COMPLETED with no live track and no open
\* socket of its own.
C22_StopDrainsThenCompletes ==
  /\ [][SheetStopRecording =>
          /\ sheetRecordingState = "RECORDING"
          /\ SheetAttempts \cap (sheetActiveRecorders' \cup sheetLiveStreams') = {}]_vars
  /\ []((/\ recorderSheetOpen
         /\ sheetRecordingState = "PROCESSING"
         /\ sheetCurrentTranscript # << >>) =>
          SheetAttempts \cap sheetOpenSockets # {})
  /\ (/\ recorderSheetOpen
      /\ sheetRecordingState = "PROCESSING"
      /\ sheetCurrentTranscript = << >>)
       ~> (\/ ~recorderSheetOpen
           \/ /\ sheetRecordingState = "COMPLETED"
              /\ SheetAttempts \cap (sheetLiveStreams \cup sheetOpenSockets) = {})

====
